---- MODULE Spec2Model ----
(***************************************************************************)
(* A model of the next-pro blog application's backend functions            *)
(* (convex/posts.ts, convex/comments.ts, convex/presence.ts), of its       *)
(* request proxy (proxy.ts), of the post page and of the server action     *)
(* that creates a post (app/actions.ts) next to the cached list of posts.  *)
(*                                                                         *)
(* Every Convex query or mutation runs as one transaction, so each handler *)
(* is one action.  A handler that throws writes nothing (the transaction   *)
(* is rolled back) and its error is what the caller receives.              *)
(*                                                                         *)
(* Each part has its own specification over the shared variables:          *)
(*   SpecSearch   searchPost over the two search indexes                   *)
(*   SpecPosts    createPost, generateImageUploadUrl                       *)
(*   SpecComments createComment, and a user changing their name            *)
(*   SpecPresence heartbeat, disconnect                                    *)
(*   SpecProxy    the proxy in front of the pages                          *)
(*   SpecPages    getPostById, generateMetadata, PostIdPage                *)
(*   SpecCreateBlog  createBlogAction, step by step                        *)
(*   SpecBlogCache   createBlogAction next to renders of PostsSection      *)
(***************************************************************************)
EXTENDS Integers, Sequences, FiniteSets, TLC

VARIABLES
    titleIndex,     \* search_title: the ranked matches of the query, as docs
    bodyIndex,      \* search_body: the ranked matches of the query, as docs
    searchResp,     \* the last searchPost call: its limit and what it returned
    userNames,      \* the auth component's user table: user id -> name
    posts,          \* the posts table, in insertion order
    uploadUrls,     \* the number of upload URLs the storage has issued
    postsResp,      \* the last call of a posts mutation and its outcome
    comments,       \* the comments table, in insertion order
    commentsResp,   \* the last call of the comments subsystem and its outcome
    presenceState,  \* the presence component's entries, over all rooms
    presenceResp,   \* the last call of a presence mutation and its outcome
    proxyLog,       \* the requests the proxy layer has handled, with responses
    pagesResp,      \* the last page render or page-level query and its outcome
    blogActions,    \* the createBlogAction calls, each with its position
    blogRenders,    \* the renders of PostsSection, each with its position
    blogCache,      \* the entry cached for PostsSection under the tag "blog"
    blogTagExpired, \* when the tag "blog" was last invalidated (0: never)
    clock           \* the server's time

vars == <<titleIndex, bodyIndex, searchResp, userNames, posts, uploadUrls,
          postsResp, comments, commentsResp, presenceState, presenceResp,
          proxyLog, pagesResp, blogActions, blogRenders, blogCache,
          blogTagExpired, clock>>

searchVars == <<titleIndex, bodyIndex, searchResp>>
postsVars == <<posts, uploadUrls, postsResp>>
commentsVars == <<comments, commentsResp>>
presenceVars == <<presenceState, presenceResp>>
pagesVars == <<pagesResp>>
blogVars == <<blogActions, blogRenders, blogCache, blogTagExpired, clock>>

(***************************************************************************)
(* Bounds of the model.                                                    *)
(***************************************************************************)
MaxDocs == 3
MaxLimit == 3
MaxPosts == 2
MaxUploads == 2
MaxComments == 2
MaxRequests == 2
MaxActions == 2
MaxRenders == 2

(***************************************************************************)
(* Values.                                                                 *)
(***************************************************************************)
\* JavaScript's null (and undefined): a value no document or id equals.
Null == [null |-> TRUE]
NoUser == "anonymous"
Users == {"u1", "u2"}
Names == {"alice", "bob"}
Callers == Users \cup {NoUser}
NoCall == [op |-> "none"]

\* A createBlogAction call, and a render of PostsSection, not yet made.
IdleAction ==
    [pc |-> "idle", values |-> Null, token |-> Null, calls |-> <<>>,
     result |-> Null, uploadUrl |-> Null, storageId |-> Null]
IdleRender ==
    [pc |-> "idle", start |-> 0, mustShow |-> {}, fetched |-> <<>>,
     shown |-> <<>>]

Min(a, b) == IF a <= b THEN a ELSE b

\* The sequences over S without repetition, of length at most n.
InjSeqs(S, n) ==
    UNION {{s \in [1..k -> S] : \A i, j \in 1..k : i # j => s[i] # s[j]} :
           k \in 0..n}

\* The place of the entry with _id = id in a sequence of docs (0: none).
Pos(s, id) ==
    IF \E i \in 1..Len(s) : s[i]._id = id
    THEN CHOOSE i \in 1..Len(s) : s[i]._id = id
    ELSE 0

Ids(s) == {s[i]._id : i \in 1..Len(s)}

(***************************************************************************)
(* The auth component.                                                     *)
(***************************************************************************)
\* authComponent.safeGetAuthUser(ctx): the user of the context's identity,
\* or null.
SafeGetAuthUser(ctxUser) ==
    IF ctxUser \in Users
    THEN [_id |-> ctxUser, name |-> userNames[ctxUser]]
    ELSE Null

\* The ConvexError every mutation throws to a caller it does not accept.
Unauthorized == [code |-> "UNAUTHORIZED"]

\* ctx.db.insert(table, values): the document gets the next id of its table.
DbInsert(table, values) == Append(table, [_id |-> Len(table) + 1] @@ values)

(***************************************************************************)
(* searchPost.                                                             *)
(***************************************************************************)
DocIds == 1..MaxDocs

\* A document of the posts table, as a search index returns it.
PostDoc(id) ==
    [_id |-> id, title |-> <<"title", id>>, body |-> <<"body", id>>,
     authorId |-> "u1", imageStorageId |-> "s1"]

\* What a search index can hold for a query: distinct documents, ranked.
IndexContents ==
    {[i \in 1..Len(s) |-> PostDoc(s[i])] : s \in InjSeqs(DocIds, MaxDocs)}

\* .take(n): the first n documents of the ranked matches.
Take(matches, n) == SubSeq(matches, 1, Min(n, Len(matches)))

\* The entry searchPost returns for a document.
ResultEntry(doc) == [_id |-> doc._id, title |-> doc.title, body |-> doc.body]

\* pushDocs without its seen check.
RECURSIVE PushDocsNoSeen(_, _, _)
PushDocsNoSeen(docs, st, lim) ==
    IF docs = <<>> THEN st
    ELSE LET doc == Head(docs)
             pushed == [result |-> Append(st.result, ResultEntry(doc)),
                        seen |-> st.seen \cup {doc._id}]
         IN IF Len(pushed.result) >= lim THEN pushed
            ELSE PushDocsNoSeen(Tail(docs), pushed, lim)

\* pushDocs without its early exit.
RECURSIVE PushDocsNoBreak(_, _, _)
PushDocsNoBreak(docs, st, lim) ==
    IF docs = <<>> THEN st
    ELSE LET doc == Head(docs)
         IN IF doc._id \in st.seen
            THEN PushDocsNoBreak(Tail(docs), st, lim)
            ELSE PushDocsNoBreak(Tail(docs),
                     [result |-> Append(st.result, ResultEntry(doc)),
                      seen |-> st.seen \cup {doc._id}], lim)

\* pushDocs: st is the closure's state, [result, seen].
RECURSIVE PushDocs(_, _, _)
PushDocs(docs, st, lim) ==
    IF docs = <<>> THEN st
    ELSE LET doc == Head(docs)
         IN IF doc._id \in st.seen
            THEN PushDocs(Tail(docs), st, lim)
            ELSE LET pushed == [result |-> Append(st.result, ResultEntry(doc)),
                                seen |-> st.seen \cup {doc._id}]
                 IN IF Len(pushed.result) >= lim THEN pushed
                    ELSE PushDocs(Tail(docs), pushed, lim)

\* The handler with its two phases in the other order.
SearchPostHandlerBodyFirst(lim) ==
    LET st0 == [result |-> <<>>, seen |-> {}]
        st1 == PushDocs(Take(bodyIndex, lim), st0, lim)
        underLimit == Len(st1.result) < lim
        st2 == IF underLimit
               THEN PushDocs(Take(titleIndex, lim), st1, lim)
               ELSE st1
    IN [result |-> st2.result, bodyQueried |-> TRUE]

\* The handler querying the body index whatever the title phase collected.
SearchPostHandlerAlwaysBody(lim) ==
    LET st0 == [result |-> <<>>, seen |-> {}]
        st1 == PushDocs(Take(titleIndex, lim), st0, lim)
        st2 == PushDocs(Take(bodyIndex, lim), st1, lim)
    IN [result |-> st2.result, bodyQueried |-> TRUE]

\* The handler of searchPost: what it returns, and whether it queried the
\* body index.
SearchPostHandler(lim) ==
    LET st0 == [result |-> <<>>, seen |-> {}]
        st1 == PushDocs(Take(titleIndex, lim), st0, lim)
        underLimit == Len(st1.result) < lim
        st2 == IF underLimit
               THEN PushDocs(Take(bodyIndex, lim), st1, lim)
               ELSE st1
    IN [result |-> st2.result, bodyQueried |-> underLimit]

SearchPost(lim) ==
    /\ searchResp' = [op |-> "searchPost", limit |-> lim,
                      result |-> SearchPostHandler(lim).result,
                      bodyQueried |-> SearchPostHandler(lim).bodyQueried]
    /\ UNCHANGED <<titleIndex, bodyIndex>>
    /\ UNCHANGED <<userNames, postsVars, commentsVars, presenceVars, proxyLog,
                   pagesVars, blogVars>>

InitRest ==
    /\ userNames = [u \in Users |-> IF u = "u1" THEN "alice" ELSE "bob"]
    /\ posts = <<>>
    /\ uploadUrls = 0
    /\ postsResp = NoCall
    /\ comments = <<>>
    /\ commentsResp = NoCall
    /\ presenceState = {}
    /\ presenceResp = NoCall
    /\ proxyLog = <<>>
    /\ pagesResp = NoCall
    /\ blogActions = [a \in 1..MaxActions |-> IdleAction]
    /\ blogRenders = [r \in 1..MaxRenders |-> IdleRender]
    /\ blogCache = Null
    /\ blogTagExpired = 0
    /\ clock = 1

InitSearch ==
    /\ titleIndex \in IndexContents
    /\ bodyIndex \in IndexContents
    /\ searchResp = NoCall
    /\ InitRest

NextSearch == \E lim \in 0..MaxLimit : SearchPost(lim)

SpecSearch == InitSearch /\ [][NextSearch]_vars

(***************************************************************************)
(* Claims about searchPost.                                                *)
(***************************************************************************)
Searched == searchResp.op = "searchPost"

\* C1: the list searchPost returns holds no two entries with the same _id,
\* whatever the two indexes hold and whatever the limit, also when a post
\* is in both indexes.
C1_NoDuplicateIds ==
    Searched =>
        \A i, j \in 1..Len(searchResp.result) :
            i # j => searchResp.result[i]._id # searchResp.result[j]._id

\* A search that met a post of both indexes in both phases.
C1_Witness ==
    /\ Searched
    /\ searchResp.bodyQueried
    /\ Ids(Take(titleIndex, searchResp.limit))
           \cap Ids(Take(bodyIndex, searchResp.limit)) # {}
    /\ Len(searchResp.result) >= 2

\* C2: for every limit >= 0, 0 included, searchPost returns at most limit
\* entries.
C2_AtMostLimit ==
    Searched => Len(searchResp.result) <= searchResp.limit

\* A search of both indexes, which hold more posts than the limit, that
\* returned limit entries.
C2_Witness ==
    /\ Searched
    /\ Cardinality(Ids(titleIndex) \cup Ids(bodyIndex)) > searchResp.limit
    /\ Len(searchResp.result) = searchResp.limit
    /\ searchResp.limit > 0
    /\ searchResp.bodyQueried

\* C3: in the returned list the posts of the title index come before the
\* posts added only because of the body index, and each group is in the
\* order of its index.
C3_TitleFirstInIndexOrder ==
    Searched =>
        LET r == searchResp.result
            fromTitle(e) == e._id \in Ids(titleIndex)
        IN /\ \A i \in 1..Len(r) :
                  r[i]._id \in Ids(titleIndex) \cup Ids(bodyIndex)
           /\ \A i, j \in 1..Len(r) :
                  i < j =>
                      /\ ~(fromTitle(r[j]) /\ ~fromTitle(r[i]))
                      /\ (fromTitle(r[i]) /\ fromTitle(r[j]))
                             => Pos(titleIndex, r[i]._id)
                                    < Pos(titleIndex, r[j]._id)
                      /\ (~fromTitle(r[i]) /\ ~fromTitle(r[j]))
                             => Pos(bodyIndex, r[i]._id)
                                    < Pos(bodyIndex, r[j]._id)

\* A result with a title match followed by two body-only matches, where the
\* body index ranks a title match first.
C3_Witness ==
    /\ Searched
    /\ Len(searchResp.result) = 3
    /\ searchResp.result[1]._id \in Ids(titleIndex)
    /\ searchResp.result[2]._id \notin Ids(titleIndex)
    /\ searchResp.result[3]._id \notin Ids(titleIndex)
    /\ bodyIndex[1]._id \in Ids(titleIndex)

\* C16: searchPost queries the body index exactly when the title phase
\* collected fewer than limit results; when the title phase alone yields
\* limit results, the result is those title matches, in their order.
C16_BodyOnlyWhenUnderLimit ==
    Searched =>
        LET titleMatches == Take(titleIndex, searchResp.limit)
        IN /\ searchResp.bodyQueried <=> Len(titleMatches) < searchResp.limit
           /\ Len(titleMatches) >= searchResp.limit =>
                  searchResp.result =
                      [i \in 1..Len(titleMatches) |->
                          [_id |-> titleMatches[i]._id,
                           title |-> titleMatches[i].title,
                           body |-> titleMatches[i].body]]

\* A search whose title phase filled a positive limit while the body index
\* holds a post the title index does not.
C16_Witness ==
    /\ Searched
    /\ searchResp.limit > 0
    /\ ~searchResp.bodyQueried
    /\ Len(searchResp.result) = searchResp.limit
    /\ Ids(bodyIndex) \ Ids(titleIndex) # {}

(***************************************************************************)
(* createPost and generateImageUploadUrl.                                  *)
(***************************************************************************)
Titles == {"t1", "t2"}
Bodies == {"b1"}
StorageIds == {"s1", "s2"}
CreatePostArgs == [title : Titles, body : Bodies, imageStorageId : StorageIds]

\* The values createPost inserts, with authorId taken from the arguments.
PostValuesFromArgs(user, args) ==
    [title |-> args.title, body |-> args.body, authorId |-> args.title,
     imageStorageId |-> args.imageStorageId]

\* The values createPost inserts for an authenticated user.
PostValues(user, args) ==
    [title |-> args.title, body |-> args.body, authorId |-> user._id,
     imageStorageId |-> args.imageStorageId]

\* createPost without its check of the user.
CreatePostNoAuthCheck(ctxUser, args) ==
    LET user == SafeGetAuthUser(ctxUser)
        author == IF user = Null THEN [_id |-> NoUser] ELSE user
    IN /\ Len(posts) < MaxPosts
       /\ posts' = DbInsert(posts, PostValues(author, args))
       /\ postsResp' = [op |-> "createPost", caller |-> ctxUser,
                        args |-> args, error |-> Null,
                        value |-> [id |-> Len(posts) + 1]]
       /\ UNCHANGED uploadUrls
       /\ UNCHANGED <<searchVars, userNames, commentsVars, presenceVars,
                      proxyLog, pagesVars,
                      blogVars>>

\* The mutation createPost, called with the identity ctxUser.
CreatePost(ctxUser, args) ==
    LET user == SafeGetAuthUser(ctxUser)
    IN /\ IF user = Null
          THEN /\ posts' = posts
               /\ postsResp' = [op |-> "createPost", caller |-> ctxUser,
                                args |-> args, error |-> Unauthorized,
                                value |-> Null]
          ELSE /\ Len(posts) < MaxPosts
               /\ posts' = DbInsert(posts, PostValues(user, args))
               /\ postsResp' = [op |-> "createPost", caller |-> ctxUser,
                                args |-> args, error |-> Null,
                                value |-> [id |-> Len(posts) + 1]]
       /\ UNCHANGED uploadUrls
       /\ UNCHANGED <<searchVars, userNames, commentsVars, presenceVars,
                      proxyLog, pagesVars,
                      blogVars>>

\* ctx.storage.generateUploadUrl(): a fresh signed URL.
StorageGenerateUploadUrl(issued) == [url |-> issued + 1]

\* generateImageUploadUrl without its check of the user.
GenerateImageUploadUrlNoAuthCheck(ctxUser) ==
    /\ uploadUrls < MaxUploads
    /\ uploadUrls' = uploadUrls + 1
    /\ postsResp' = [op |-> "generateImageUploadUrl", caller |-> ctxUser,
                     args |-> Null, error |-> Null,
                     value |-> StorageGenerateUploadUrl(uploadUrls)]
    /\ UNCHANGED posts
    /\ UNCHANGED <<searchVars, userNames, commentsVars, presenceVars,
                   proxyLog, pagesVars,
                      blogVars>>

\* The mutation generateImageUploadUrl, called with the identity ctxUser.
GenerateImageUploadUrl(ctxUser) ==
    LET user == SafeGetAuthUser(ctxUser)
    IN /\ IF user = Null
          THEN /\ uploadUrls' = uploadUrls
               /\ postsResp' = [op |-> "generateImageUploadUrl",
                                caller |-> ctxUser, args |-> Null,
                                error |-> Unauthorized, value |-> Null]
          ELSE /\ uploadUrls < MaxUploads
               /\ uploadUrls' = uploadUrls + 1
               /\ postsResp' = [op |-> "generateImageUploadUrl",
                                caller |-> ctxUser, args |-> Null,
                                error |-> Null,
                                value |-> StorageGenerateUploadUrl(uploadUrls)]
       /\ UNCHANGED posts
       /\ UNCHANGED <<searchVars, userNames, commentsVars, presenceVars,
                      proxyLog, pagesVars,
                      blogVars>>

Init ==
    /\ titleIndex = <<>>
    /\ bodyIndex = <<>>
    /\ searchResp = NoCall
    /\ InitRest

NextPosts ==
    \/ \E ctxUser \in Callers, args \in CreatePostArgs :
           CreatePost(ctxUser, args)
    \/ \E ctxUser \in Callers : GenerateImageUploadUrl(ctxUser)

SpecPosts == Init /\ [][NextPosts]_vars

(***************************************************************************)
(* Claims about createPost and generateImageUploadUrl.                     *)
(***************************************************************************)
\* C4: createPost called without an authenticated user fails with
\* UNAUTHORIZED and leaves the posts table as it was; the posts table
\* changes only in a createPost call made by an authenticated user, which
\* appends one post.
C4_CreatePostNeedsUser ==
    [][/\ (postsResp'.op = "createPost" /\ postsResp'.caller \notin Users)
              => (postsResp'.error = Unauthorized /\ posts' = posts)
       /\ posts' # posts
              => /\ postsResp'.op = "createPost"
                 /\ postsResp'.caller \in Users
                 /\ postsResp'.error = Null
                 /\ Len(posts') = Len(posts) + 1
                 /\ SubSeq(posts', 1, Len(posts)) = posts]_vars

\* An unauthenticated createPost refused while the table holds a post.
C4_Witness ==
    /\ postsResp.op = "createPost"
    /\ postsResp.caller = NoUser
    /\ postsResp.error = Unauthorized
    /\ Len(posts) >= 1

\* C5: a post is inserted with the authorId of the user authenticated in
\* the inserting createPost call, whatever the arguments, and no later step
\* changes a stored post; so each post's authorId is its inserter's id.
C5_AuthorIsAuthenticatedUser ==
    [][\A i \in 1..Len(posts') :
           IF i <= Len(posts)
           THEN posts'[i] = posts[i]
           ELSE /\ postsResp'.op = "createPost"
                /\ posts'[i].authorId = postsResp'.caller
                /\ posts'[i].authorId \in Users]_vars

\* Two posts by different authors, the last one by the last caller.
C5_Witness ==
    /\ Len(posts) = 2
    /\ posts[1].authorId # posts[2].authorId
    /\ postsResp.op = "createPost"
    /\ postsResp.error = Null
    /\ posts[2].authorId = postsResp.caller

\* C6: generateImageUploadUrl called without an authenticated user fails
\* with UNAUTHORIZED and issues no upload URL; a URL is issued, and
\* returned, only in a call made by an authenticated user.
C6_UploadUrlNeedsUser ==
    [][/\ (postsResp'.op = "generateImageUploadUrl"
              /\ postsResp'.caller \notin Users)
              => /\ postsResp'.error = Unauthorized
                 /\ postsResp'.value = Null
                 /\ uploadUrls' = uploadUrls
       /\ (uploadUrls' # uploadUrls
              \/ (postsResp'.op = "generateImageUploadUrl"
                     /\ postsResp'.value # Null))
              => /\ postsResp'.op = "generateImageUploadUrl"
                 /\ postsResp'.caller \in Users
                 /\ postsResp'.error = Null
                 /\ uploadUrls' = uploadUrls + 1
                 /\ postsResp'.value = [url |-> uploadUrls']]_vars

\* An unauthenticated call refused after a URL was issued to a user.
C6_Witness ==
    /\ postsResp.op = "generateImageUploadUrl"
    /\ postsResp.caller = NoUser
    /\ postsResp.error = Unauthorized
    /\ uploadUrls >= 1

(***************************************************************************)
(* createComment, and the auth component changing a user's name.           *)
(***************************************************************************)
PostIds == 1..MaxPosts
CommentBodies == {"c1"}
CreateCommentArgs == [postId : PostIds, body : CommentBodies]

\* The values createComment inserts for an authenticated user.
CommentValues(user, args) ==
    [postId |-> args.postId, body |-> args.body, authorId |-> user._id,
     authorName |-> user.name]

\* createComment without its check of the user.
CreateCommentNoAuthCheck(ctxUser, args) ==
    LET user == SafeGetAuthUser(ctxUser)
        author == IF user = Null THEN [_id |-> NoUser, name |-> NoUser]
                  ELSE user
    IN /\ Len(comments) < MaxComments
       /\ comments' = DbInsert(comments, CommentValues(author, args))
       /\ commentsResp' = [op |-> "createComment", caller |-> ctxUser,
                           args |-> args, error |-> Null,
                           value |-> [id |-> Len(comments) + 1]]
       /\ UNCHANGED <<searchVars, userNames, postsVars, presenceVars,
                      proxyLog, pagesVars,
                      blogVars>>

\* createComment also bringing the author's stored comments to the
\* author's current name.
CreateCommentResyncNames(ctxUser, args) ==
    LET user == SafeGetAuthUser(ctxUser)
        resynced == [i \in 1..Len(comments) |->
                        IF comments[i].authorId = user._id
                        THEN [comments[i] EXCEPT !.authorName = user.name]
                        ELSE comments[i]]
    IN /\ IF user = Null
          THEN /\ comments' = comments
               /\ commentsResp' = [op |-> "createComment",
                                   caller |-> ctxUser, args |-> args,
                                   error |-> Unauthorized, value |-> Null]
          ELSE /\ Len(comments) < MaxComments
               /\ comments' = DbInsert(resynced, CommentValues(user, args))
               /\ commentsResp' = [op |-> "createComment",
                                   caller |-> ctxUser, args |-> args,
                                   error |-> Null,
                                   value |-> [id |-> Len(comments) + 1]]
       /\ UNCHANGED <<searchVars, userNames, postsVars, presenceVars,
                      proxyLog, pagesVars,
                      blogVars>>

\* The mutation createComment, called with the identity ctxUser.
CreateComment(ctxUser, args) ==
    LET user == SafeGetAuthUser(ctxUser)
    IN /\ IF user = Null
          THEN /\ comments' = comments
               /\ commentsResp' = [op |-> "createComment",
                                   caller |-> ctxUser, args |-> args,
                                   error |-> Unauthorized, value |-> Null]
          ELSE /\ Len(comments) < MaxComments
               /\ comments' = DbInsert(comments, CommentValues(user, args))
               /\ commentsResp' = [op |-> "createComment",
                                   caller |-> ctxUser, args |-> args,
                                   error |-> Null,
                                   value |-> [id |-> Len(comments) + 1]]
       /\ UNCHANGED <<searchVars, userNames, postsVars, presenceVars,
                      proxyLog, pagesVars,
                      blogVars>>

\* A user changes their name through the auth endpoints: only the auth
\* component's user table is written.
ChangeName(u, name) ==
    /\ name # userNames[u]
    /\ userNames' = [userNames EXCEPT ![u] = name]
    /\ comments' = comments
    /\ commentsResp' = [op |-> "changeName", caller |-> u,
                        args |-> [name |-> name], error |-> Null,
                        value |-> Null]
    /\ UNCHANGED <<searchVars, postsVars, presenceVars, proxyLog, pagesVars,
                      blogVars>>

NextComments ==
    \/ \E ctxUser \in Callers, args \in CreateCommentArgs :
           CreateComment(ctxUser, args)
    \/ \E u \in Users, name \in Names : ChangeName(u, name)

SpecComments == Init /\ [][NextComments]_vars

(***************************************************************************)
(* Claims about createComment.                                             *)
(***************************************************************************)
\* C7: createComment called without an authenticated user fails with
\* UNAUTHORIZED and leaves the comments table as it was; a successful call
\* appends one comment whose authorId and authorName are the id and the
\* name of the authenticated user, with the postId and body of the call.
C7_CreateCommentNeedsUser ==
    [][commentsResp'.op = "createComment" =>
           IF commentsResp'.caller \notin Users
           THEN commentsResp'.error = Unauthorized /\ comments' = comments
           ELSE /\ commentsResp'.error = Null
                /\ Len(comments') = Len(comments) + 1
                /\ SubSeq(comments', 1, Len(comments)) = comments
                /\ LET c == comments'[Len(comments')]
                   IN /\ c.authorId = commentsResp'.caller
                      /\ c.authorName = userNames[commentsResp'.caller]
                      /\ c.postId = commentsResp'.args.postId
                      /\ c.body = commentsResp'.args.body]_vars

\* An unauthenticated createComment refused after a user's comment was
\* stored.
C7_Witness ==
    /\ commentsResp.op = "createComment"
    /\ commentsResp.caller = NoUser
    /\ commentsResp.error = Unauthorized
    /\ Len(comments) >= 1
    /\ comments[1].authorName = userNames[comments[1].authorId]

\* C8: a stored comment keeps its authorName in every step, a change of
\* the author's name included, and a newly stored comment carries the name
\* its author has at that moment.
C8_AuthorNameIsSnapshot ==
    [][/\ \A i \in 1..Len(comments) :
              /\ i <= Len(comments')
              /\ comments'[i].authorName = comments[i].authorName
       /\ \A i \in (Len(comments) + 1)..Len(comments') :
              /\ comments'[i].authorName = userNames[comments'[i].authorId]
              /\ comments'[i].authorName = userNames'[comments'[i].authorId]
      ]_vars

\* Two comments of one author, the first under the old name, the second
\* under the new one.
C8_Witness ==
    /\ Len(comments) = 2
    /\ comments[1].authorId = comments[2].authorId
    /\ comments[1].authorName # comments[2].authorName
    /\ comments[2].authorName = userNames[comments[2].authorId]

(***************************************************************************)
(* Presence: heartbeat and disconnect.                                     *)
(***************************************************************************)
Rooms == {"r1", "r2"}
Sessions == {"tab1", "tab2"}
UserIdArgs == Users \cup {"nobody"}
Intervals == {10000}
HeartbeatArgs ==
    [roomId : Rooms, userId : UserIdArgs, sessionId : Sessions,
     interval : Intervals]
PresenceEntries == [roomId : Rooms, userId : UserIdArgs, sessionId : Sessions]

\* presence.heartbeat(ctx, roomId, userId, sessionId, interval): the session
\* is present in the room; its tokens are returned.
PresenceHeartbeat(state, roomId, userId, sessionId) ==
    LET entry == [roomId |-> roomId, userId |-> userId,
                  sessionId |-> sessionId]
    IN [state |-> state \cup {entry},
        value |-> [roomToken |-> roomId, sessionToken |-> entry]]

\* presence.disconnect(ctx, sessionToken): the token's session is gone.
PresenceDisconnect(state, sessionToken) == state \ {sessionToken}

\* heartbeat checking only that the caller is authenticated.
HeartbeatNoUserIdCheck(ctxUser, args) ==
    LET user == SafeGetAuthUser(ctxUser)
        done == PresenceHeartbeat(presenceState, args.roomId, args.userId,
                                  args.sessionId)
    IN /\ IF user = Null
          THEN /\ presenceState' = presenceState
               /\ presenceResp' = [op |-> "heartbeat", caller |-> ctxUser,
                                   args |-> args, error |-> Unauthorized,
                                   value |-> Null]
          ELSE /\ presenceState' = done.state
               /\ presenceResp' = [op |-> "heartbeat", caller |-> ctxUser,
                                   args |-> args, error |-> Null,
                                   value |-> done.value]
       /\ UNCHANGED <<searchVars, userNames, postsVars, commentsVars,
                      proxyLog, pagesVars,
                      blogVars>>

\* The mutation heartbeat, called with the identity ctxUser.
Heartbeat(ctxUser, args) ==
    LET user == SafeGetAuthUser(ctxUser)
        done == PresenceHeartbeat(presenceState, args.roomId, args.userId,
                                  args.sessionId)
    IN /\ IF user = Null \/ user._id # args.userId
          THEN /\ presenceState' = presenceState
               /\ presenceResp' = [op |-> "heartbeat", caller |-> ctxUser,
                                   args |-> args, error |-> Unauthorized,
                                   value |-> Null]
          ELSE /\ presenceState' = done.state
               /\ presenceResp' = [op |-> "heartbeat", caller |-> ctxUser,
                                   args |-> args, error |-> Null,
                                   value |-> done.value]
       /\ UNCHANGED <<searchVars, userNames, postsVars, commentsVars,
                      proxyLog, pagesVars,
                      blogVars>>

\* The mutation disconnect: no check of the caller.
Disconnect(ctxUser, sessionToken) ==
    /\ presenceState' = PresenceDisconnect(presenceState, sessionToken)
    /\ presenceResp' = [op |-> "disconnect", caller |-> ctxUser,
                        args |-> [sessionToken |-> sessionToken],
                        error |-> Null, value |-> Null]
    /\ UNCHANGED <<searchVars, userNames, postsVars, commentsVars, proxyLog, pagesVars,
                      blogVars>>

NextPresence ==
    \/ \E ctxUser \in Callers, args \in HeartbeatArgs :
           Heartbeat(ctxUser, args)
    \/ \E ctxUser \in Callers, token \in PresenceEntries :
           Disconnect(ctxUser, token)

SpecPresence == Init /\ [][NextPresence]_vars

(***************************************************************************)
(* Claim about heartbeat.                                                  *)
(***************************************************************************)
\* C9: heartbeat fails with UNAUTHORIZED and leaves the presence state of
\* every room as it was when the caller is not authenticated or the userId
\* argument is not the caller's id; so an entry enters the presence state
\* only in a heartbeat of the user whose id it carries.
C9_HeartbeatOnlyForSelf ==
    [][/\ (/\ presenceResp'.op = "heartbeat"
           /\ \/ presenceResp'.caller \notin Users
              \/ presenceResp'.args.userId # presenceResp'.caller)
              => /\ presenceResp'.error = Unauthorized
                 /\ presenceState' = presenceState
       /\ \A e \in presenceState' \ presenceState :
              /\ presenceResp'.op = "heartbeat"
              /\ presenceResp'.error = Null
              /\ e.userId = presenceResp'.caller
              /\ e.userId = presenceResp'.args.userId]_vars

\* A user's heartbeat in another user's name refused while that other user
\* is present.
C9_Witness ==
    /\ presenceResp.op = "heartbeat"
    /\ presenceResp.caller \in Users
    /\ presenceResp.args.userId \in Users \ {presenceResp.caller}
    /\ presenceResp.error = Unauthorized
    /\ \E e \in presenceState : e.userId = presenceResp.args.userId

(***************************************************************************)
(* The proxy in front of the pages.                                        *)
(***************************************************************************)
Origins == {"http://localhost:3000", "https://blog.example"}
Paths == {"/", "/blog", "/create", "/blog/p1"}
SessionCookieName == "better-auth.session_token"
\* The cookies a request can carry; a cookie's value is a non-empty text.
Cookies ==
    {[name |-> SessionCookieName, value |-> [text |-> "token"]],
     [name |-> "theme", value |-> [text |-> "dark"]]}
Requests == [url : [origin : Origins, path : Paths], cookies : SUBSET Cookies]

\* config.matcher: the paths the proxy runs for.
ConfigMatcher == {"/blog", "/create"}

\* getSessionCookie(request): the value of the session cookie, or null.
GetSessionCookie(request) ==
    IF \E c \in request.cookies : c.name = SessionCookieName
    THEN (CHOOSE c \in request.cookies : c.name = SessionCookieName).value
    ELSE Null

\* new URL(path, base): path on the origin of base.
NewURL(path, base) == [origin |-> base.origin, path |-> path]

\* NextResponse.redirect(url) and NextResponse.next().
NextResponseRedirect(url) == [kind |-> "redirect", location |-> url]
NextResponseNext(request) == [kind |-> "next", request |-> request]

\* proxy with its test of the cookie inverted.
ProxyInverted(request) ==
    LET sessionCookie == GetSessionCookie(request)
    IN IF sessionCookie # Null
       THEN NextResponseRedirect(NewURL("/auth/login", request.url))
       ELSE NextResponseNext(request)

\* proxy(request).
Proxy(request) ==
    LET sessionCookie == GetSessionCookie(request)
    IN IF sessionCookie = Null
       THEN NextResponseRedirect(NewURL("/auth/login", request.url))
       ELSE NextResponseNext(request)

\* A request arrives: the proxy runs when the matcher has its path, and the
\* request goes on to its route otherwise.
HandleRequest(request) ==
    /\ Len(proxyLog) < MaxRequests
    /\ proxyLog' = Append(proxyLog,
           [request |-> request,
            response |-> IF request.url.path \in ConfigMatcher
                         THEN Proxy(request)
                         ELSE NextResponseNext(request)])
    /\ UNCHANGED <<searchVars, userNames, postsVars, commentsVars,
                   presenceVars, pagesVars, blogVars>>

NextProxy == \E request \in Requests : HandleRequest(request)

SpecProxy == Init /\ [][NextProxy]_vars

(***************************************************************************)
(* Claim about the proxy.                                                  *)
(***************************************************************************)
\* C10: a request to /blog or /create is answered with a redirect to
\* /auth/login (on the request's origin) when it carries no session cookie,
\* and goes on unchanged when it carries one.
C10_ProxyRedirectsWithoutCookie ==
    \A i \in 1..Len(proxyLog) :
        LET request == proxyLog[i].request
            response == proxyLog[i].response
            hasSession == \E c \in request.cookies :
                              c.name = SessionCookieName
        IN request.url.path \in {"/blog", "/create"} =>
               IF hasSession
               THEN response = [kind |-> "next", request |-> request]
               ELSE response =
                        [kind |-> "redirect",
                         location |-> [origin |-> request.url.origin,
                                       path |-> "/auth/login"]]

\* /blog asked without a session cookie (another cookie only) and /create
\* asked with one.
C10_Witness ==
    /\ Len(proxyLog) = 2
    /\ proxyLog[1].request.url.path = "/blog"
    /\ proxyLog[1].request.cookies # {}
    /\ proxyLog[1].response.kind = "redirect"
    /\ proxyLog[2].request.url.path = "/create"
    /\ \E c \in proxyLog[2].request.cookies : c.name = SessionCookieName
    /\ proxyLog[2].response.kind = "next"

(***************************************************************************)
(* getPostById, getUserId and the post detail page.                        *)
(***************************************************************************)
\* The ConvexError getPostById throws for an id no post has.
NotFound == [code |-> "NOT_FOUND"]

\* The ids whose file the storage holds; the file of "s2" is gone.
StoredFiles == {"s1"}

\* ctx.db.get(id): the document, or null.
DbGet(table, id) == IF id \in 1..Len(table) THEN table[id] ELSE Null

\* ctx.storage.getUrl(storageId): the file's URL, or null without the file.
StorageGetUrl(storageId) ==
    IF storageId \in StoredFiles THEN [url |-> storageId] ELSE Null

\* getPostById answering null for an id no post has.
GetPostByIdHandlerNullOnMissing(postId) ==
    LET post == DbGet(posts, postId)
    IN IF post = Null
       THEN [error |-> Null, value |-> Null]
       ELSE [error |-> Null,
             value |-> post @@
                 [imageUrl |-> StorageGetUrl(post.imageStorageId)]]

\* The handler of getPostById: what it throws or returns.  A stored post
\* always has an imageStorageId, so the URL is always asked for.
GetPostByIdHandler(postId) ==
    LET post == DbGet(posts, postId)
    IN IF post = Null
       THEN [error |-> NotFound, value |-> Null]
       ELSE [error |-> Null,
             value |-> post @@
                 [imageUrl |-> StorageGetUrl(post.imageStorageId)]]

\* The handler of getUserId: the id of the context's user, or null.
GetUserIdHandler(ctxUser) ==
    LET user == SafeGetAuthUser(ctxUser)
    IN IF user = Null
       THEN [error |-> Null, value |-> Null]
       ELSE [error |-> Null, value |-> [userId |-> user._id]]

\* The query getPostById, called directly.
GetPostById(postId) ==
    /\ pagesResp' = [op |-> "getPostById", caller |-> NoUser,
                     args |-> [postId |-> postId],
                     error |-> GetPostByIdHandler(postId).error,
                     value |-> GetPostByIdHandler(postId).value]
    /\ UNCHANGED <<searchVars, userNames, postsVars, commentsVars,
                   presenceVars, proxyLog, blogVars>>

\* generateMetadata: fetchQuery rejects with the query's error, and nothing
\* catches it.
GenerateMetadataResult(postId) ==
    LET fetched == GetPostByIdHandler(postId)
        post == fetched.value
    IN IF fetched.error # Null
       THEN [error |-> fetched.error, value |-> Null]
       ELSE IF post = Null
       THEN [error |-> Null,
             value |-> [title |-> "Post not found", type |-> "generic"]]
       ELSE [error |-> Null,
             value |-> [title |-> post.title, type |-> "article"]]

GenerateMetadata(postId) ==
    /\ pagesResp' = [op |-> "generateMetadata", caller |-> NoUser,
                     args |-> [postId |-> postId],
                     error |-> GenerateMetadataResult(postId).error,
                     value |-> GenerateMetadataResult(postId).value]
    /\ UNCHANGED <<searchVars, userNames, postsVars, commentsVars,
                   presenceVars, proxyLog, blogVars>>

\* PostIdPage: Promise.all rejects when one of its queries rejects, before
\* the page looks at userId; preloadQuery of the comments does not reject.
PostIdPageResult(ctxUser, postId) ==
    LET fetched == GetPostByIdHandler(postId)
        post == fetched.value
        userId == GetUserIdHandler(ctxUser).value
    IN IF fetched.error # Null
       THEN [error |-> fetched.error, value |-> Null]
       ELSE IF userId = Null
       THEN [error |-> Null,
             value |-> [kind |-> "redirect", location |-> "/auth/login"]]
       ELSE IF post = Null
       THEN [error |-> Null, value |-> [kind |-> "postNotFound"]]
       ELSE [error |-> Null,
             value |-> [kind |-> "post", title |-> post.title,
                        body |-> post.body, imageUrl |-> post.imageUrl,
                        roomId |-> post._id, userId |-> userId.userId]]

\* A viewer with the identity ctxUser asks for /blog/<postId>.
RenderPostIdPage(ctxUser, postId) ==
    /\ pagesResp' = [op |-> "PostIdPage", caller |-> ctxUser,
                     args |-> [postId |-> postId],
                     error |-> PostIdPageResult(ctxUser, postId).error,
                     value |-> PostIdPageResult(ctxUser, postId).value]
    /\ UNCHANGED <<searchVars, userNames, postsVars, commentsVars,
                   presenceVars, proxyLog, blogVars>>

NextPages ==
    \/ \E ctxUser \in Callers, args \in CreatePostArgs :
           CreatePost(ctxUser, args)
    \/ \E postId \in PostIds : GetPostById(postId)
    \/ \E postId \in PostIds : GenerateMetadata(postId)
    \/ \E ctxUser \in Callers, postId \in PostIds :
           RenderPostIdPage(ctxUser, postId)

SpecPages == Init /\ [][NextPages]_vars

(***************************************************************************)
(* Claims about the post detail page and getPostById.                      *)
(***************************************************************************)
\* C11: the post detail page answers a viewer who is not authenticated
\* with a redirect to /auth/login, whatever postId is asked for, and never
\* with the post's content.
C11_UnauthenticatedViewerRedirected ==
    (pagesResp.op = "PostIdPage" /\ pagesResp.caller \notin Users)
        => /\ pagesResp.error = Null
           /\ pagesResp.value = [kind |-> "redirect",
                                 location |-> "/auth/login"]

\* C12: getPostById throws NOT_FOUND when no post has the id, and
\* otherwise returns that post's fields together with an imageUrl; it never
\* returns null.
C12_GetPostByIdFoundOrNotFound ==
    \A id \in PostIds :
        LET answer == GetPostByIdHandler(id)
        IN IF \E i \in 1..Len(posts) : posts[i]._id = id
           THEN /\ answer.error = Null
                /\ answer.value # Null
                /\ DOMAIN answer.value = DOMAIN posts[id] \cup {"imageUrl"}
                /\ \A f \in DOMAIN posts[id] : answer.value[f] = posts[id][f]
           ELSE /\ answer.error = [code |-> "NOT_FOUND"]
                /\ answer.value = Null

\* The second of two posts fetched, with the URL of its image.
C12_Witness ==
    /\ pagesResp.op = "getPostById"
    /\ Len(posts) = 2
    /\ pagesResp.args.postId = 2
    /\ pagesResp.error = Null
    /\ pagesResp.value.imageUrl # Null

\* C13: for a postId no post has, generateMetadata returns the generic
\* metadata titled "Post not found" and does not fail.
C13_MissingPostGenericMetadata ==
    (/\ pagesResp.op = "generateMetadata"
     /\ DbGet(posts, pagesResp.args.postId) = Null)
        => /\ pagesResp.error = Null
           /\ pagesResp.value # Null
           /\ pagesResp.value.title = "Post not found"

(***************************************************************************)
(* createBlogAction and the cached PostsSection.                           *)
(*                                                                         *)
(* createBlogAction awaits each backend call, so each call is a step of    *)
(* its own and other actions and renders run between its steps.           *)
(* PostsSection is a "use cache" function: the framework keeps its result  *)
(* with the time the computation STARTED, and an entry is served only      *)
(* while that time is later than the last invalidation of its tag.         *)
(***************************************************************************)
TitleMinLen == 3
TitleMaxLen == 50
ContentMinLen == 10
MaxImageBytes == 1024 * 1024

TitleLens == {TitleMinLen - 1, TitleMinLen, TitleMaxLen + 1}
ContentLens == {ContentMinLen - 1, ContentMinLen}
ImageSizes == {MaxImageBytes, MaxImageBytes + 1}
FormValues ==
    [title : [len : TitleLens], content : [len : ContentLens],
     image : [size : ImageSizes]]

\* getToken(): the session's token, or nothing; the token of an ended
\* session names no user.
Tokens == {Null, [sub |-> "u1"], [sub |-> NoUser]}

\* The messages postSchema gives for each field of values.
PostSchemaIssues(values) ==
    [title |-> IF values.title.len < TitleMinLen
               THEN <<"Title must be at least 3 characters long">>
               ELSE IF values.title.len > TitleMaxLen
               THEN <<"Title must be at most 50 characters long">>
               ELSE <<>>,
     content |-> IF values.content.len < ContentMinLen
                 THEN <<"Content must be at least 10 characters long">>
                 ELSE <<>>,
     image |-> IF values.image.size <= MaxImageBytes
               THEN <<>>
               ELSE <<"File size must be less than 1MB">>]

\* postSchema.safeParse(values), with error.flatten().fieldErrors.
PostSchemaSafeParse(values) ==
    LET issues == PostSchemaIssues(values)
        failing == {f \in DOMAIN issues : issues[f] # <<>>}
    IN IF failing = {}
       THEN [success |-> TRUE, data |-> values]
       ELSE [success |-> FALSE,
             fieldErrors |-> [f \in failing |-> issues[f]]]

\* The start of createBlogAction with the token looked at first.
BlogActionPrecheckTokenFirst(values, token) ==
    LET parsed == PostSchemaSafeParse(values)
    IN IF token = Null
       THEN [error |-> "Unauthorized"]
       ELSE IF ~parsed.success
       THEN [error |-> "Invalid data", details |-> parsed.fieldErrors]
       ELSE Null

\* The start of createBlogAction, up to its first backend call: what it
\* returns, or null when it goes on.
BlogActionPrecheck(values, token) ==
    LET parsed == PostSchemaSafeParse(values)
    IN IF ~parsed.success
       THEN [error |-> "Invalid data", details |-> parsed.fieldErrors]
       ELSE IF token = Null
       THEN [error |-> "Unauthorized"]
       ELSE Null

\* What the catch block of createBlogAction returns.
FailedToCreatePost == [error |-> "Failed to create post"]

\* createBlogAction is called with values by a client whose session gives
\* token.
BlogActionStart(a, values, token) ==
    /\ blogActions[a].pc = "idle"
    /\ IF a = 1 THEN TRUE ELSE blogActions[a - 1].pc # "idle"
    /\ LET returned == BlogActionPrecheck(values, token)
       IN blogActions' = [blogActions EXCEPT ![a] =
              [@ EXCEPT !.values = values, !.token = token,
                        !.result = returned,
                        !.pc = IF returned = Null
                               THEN "generateImageUploadUrl"
                               ELSE "done"]]
    /\ UNCHANGED <<blogRenders, blogCache, blogTagExpired, clock>>
    /\ UNCHANGED <<searchVars, userNames, postsVars, commentsVars,
                   presenceVars, proxyLog, pagesVars>>

\* fetchMutation(api.posts.generateImageUploadUrl, {}, { token }).
BlogActionGenerateUrl(a) ==
    LET act == blogActions[a]
        user == SafeGetAuthUser(act.token.sub)
    IN /\ act.pc = "generateImageUploadUrl"
       /\ IF user = Null
          THEN /\ uploadUrls' = uploadUrls
               /\ blogActions' = [blogActions EXCEPT ![a] =
                      [@ EXCEPT !.calls = Append(@, "generateImageUploadUrl"),
                                !.result = FailedToCreatePost,
                                !.pc = "done"]]
          ELSE /\ uploadUrls < MaxUploads
               /\ uploadUrls' = uploadUrls + 1
               /\ blogActions' = [blogActions EXCEPT ![a] =
                      [@ EXCEPT !.calls = Append(@, "generateImageUploadUrl"),
                                !.uploadUrl =
                                    StorageGenerateUploadUrl(uploadUrls),
                                !.pc = "upload"]]
       /\ UNCHANGED <<posts, postsResp>>
       /\ UNCHANGED <<blogRenders, blogCache, blogTagExpired, clock>>
       /\ UNCHANGED <<searchVars, userNames, commentsVars, presenceVars,
                      proxyLog, pagesVars>>

\* fetch(imageUploadUrl, POST): the storage refuses the file, or keeps it
\* and answers with its storageId.  The URL is not used again.
BlogActionUpload(a, ok, storageId) ==
    LET act == blogActions[a]
    IN /\ act.pc = "upload"
       /\ blogActions' = [blogActions EXCEPT ![a] =
              IF ok
              THEN [@ EXCEPT !.calls = Append(@, "upload"),
                             !.uploadUrl = Null,
                             !.storageId = [storageId |-> storageId],
                             !.pc = "createPost"]
              ELSE [@ EXCEPT !.calls = Append(@, "upload"),
                             !.uploadUrl = Null,
                             !.result = [error |-> "Failed to upload image"],
                             !.pc = "done"]]
       /\ UNCHANGED <<blogRenders, blogCache, blogTagExpired, clock>>
       /\ UNCHANGED <<searchVars, userNames, postsVars, commentsVars,
                      presenceVars, proxyLog, pagesVars>>

\* fetchMutation(api.posts.createPost, {title, body, imageStorageId},
\* { token }).
BlogActionCreatePost(a) ==
    LET act == blogActions[a]
        user == SafeGetAuthUser(act.token.sub)
        args == [title |-> act.values.title, body |-> act.values.content,
                 imageStorageId |-> act.storageId.storageId]
    IN /\ act.pc = "createPost"
       /\ IF user = Null
          THEN /\ posts' = posts
               /\ blogActions' = [blogActions EXCEPT ![a] =
                      [@ EXCEPT !.calls = Append(@, "createPost"),
                                !.result = FailedToCreatePost,
                                !.pc = "done"]]
          ELSE /\ Len(posts) < MaxPosts
               /\ posts' = DbInsert(posts, PostValues(user, args))
               /\ blogActions' = [blogActions EXCEPT ![a] =
                      [@ EXCEPT !.calls = Append(@, "createPost"),
                                !.result = [postId |-> Len(posts) + 1],
                                !.pc = "updateTag"]]
       /\ UNCHANGED <<uploadUrls, postsResp>>
       /\ UNCHANGED <<blogRenders, blogCache, blogTagExpired, clock>>
       /\ UNCHANGED <<searchVars, userNames, commentsVars, presenceVars,
                      proxyLog, pagesVars>>

\* The end of createBlogAction without its updateTag.
BlogActionFinishNoUpdateTag(a) ==
    LET act == blogActions[a]
    IN /\ act.pc = "updateTag"
       /\ blogTagExpired' = blogTagExpired
       /\ clock' = clock + 1
       /\ blogActions' = [blogActions EXCEPT ![a] =
              [@ EXCEPT !.result = [redirect |-> "/blog",
                                    postId |-> act.result.postId],
                        !.pc = "done"]]
       /\ UNCHANGED <<blogRenders, blogCache>>
       /\ UNCHANGED <<searchVars, userNames, postsVars, commentsVars,
                      presenceVars, proxyLog, pagesVars>>

\* The end of createBlogAction: updateTag("blog"), then redirect("/blog").
BlogActionFinish(a) ==
    LET act == blogActions[a]
    IN /\ act.pc = "updateTag"
       /\ blogTagExpired' = clock
       /\ clock' = clock + 1
       /\ blogActions' = [blogActions EXCEPT ![a] =
              [@ EXCEPT !.result = [redirect |-> "/blog",
                                    postId |-> act.result.postId],
                        !.pc = "done"]]
       /\ UNCHANGED <<blogRenders, blogCache>>
       /\ UNCHANGED <<searchVars, userNames, postsVars, commentsVars,
                      presenceVars, proxyLog, pagesVars>>

\* The handler of getPosts: the posts newest first, each with its imageUrl.
GetPostsHandler ==
    [i \in 1..Len(posts) |->
        LET post == posts[Len(posts) + 1 - i]
        IN post @@ [imageUrl |-> StorageGetUrl(post.imageStorageId)]]

\* The posts of the createBlogAction calls that have completed.
CompletedPosts ==
    {blogActions[a].result.postId :
        a \in {b \in 1..MaxActions :
                  /\ blogActions[b].pc = "done"
                  /\ "redirect" \in DOMAIN blogActions[b].result}}

\* Whether the cache serves its entry for the tag "blog".
CacheHit ==
    /\ blogCache # Null
    /\ blogCache.timestamp > blogTagExpired

\* A render of PostsSection begins: the cached list is served when there
\* is a valid one, and the function body runs otherwise.
RenderStart(r) ==
    /\ blogRenders[r].pc = "idle"
    /\ IF r = 1 THEN TRUE ELSE blogRenders[r - 1].pc # "idle"
    /\ clock' = clock + 1
    /\ blogRenders' = [blogRenders EXCEPT ![r] =
           IF CacheHit
           THEN [@ EXCEPT !.start = clock, !.mustShow = CompletedPosts,
                          !.shown = blogCache.value, !.pc = "done"]
           ELSE [@ EXCEPT !.start = clock, !.mustShow = CompletedPosts,
                          !.pc = "fetch"]]
    /\ UNCHANGED <<blogActions, blogCache, blogTagExpired>>
    /\ UNCHANGED <<searchVars, userNames, postsVars, commentsVars,
                   presenceVars, proxyLog, pagesVars>>

\* The body of PostsSection: fetchQuery(api.posts.getPosts).
RenderFetch(r) ==
    /\ blogRenders[r].pc = "fetch"
    /\ blogRenders' = [blogRenders EXCEPT ![r] =
           [@ EXCEPT !.fetched = GetPostsHandler, !.pc = "store"]]
    /\ UNCHANGED <<blogActions, blogCache, blogTagExpired, clock>>
    /\ UNCHANGED <<searchVars, userNames, postsVars, commentsVars,
                   presenceVars, proxyLog, pagesVars>>

\* The render's result is shown and cached, under the time it started
\* (storedAt, the time of this step, is read by no step).
RenderStore(r) ==
    /\ blogRenders[r].pc = "store"
    /\ blogCache' = [value |-> blogRenders[r].fetched,
                     timestamp |-> blogRenders[r].start,
                     storedAt |-> clock]
    /\ blogRenders' = [blogRenders EXCEPT ![r] =
           [@ EXCEPT !.shown = blogRenders[r].fetched, !.pc = "done"]]
    /\ UNCHANGED <<blogActions, blogTagExpired, clock>>
    /\ UNCHANGED <<searchVars, userNames, postsVars, commentsVars,
                   presenceVars, proxyLog, pagesVars>>

\* createBlogAction alone, called with every kind of input.
NextCreateBlog ==
    \/ \E a \in 1..MaxActions, values \in FormValues, token \in Tokens :
           BlogActionStart(a, values, token)
    \/ \E a \in 1..MaxActions : BlogActionGenerateUrl(a)
    \/ \E a \in 1..MaxActions, ok \in BOOLEAN, storageId \in StoredFiles :
           BlogActionUpload(a, ok, storageId)
    \/ \E a \in 1..MaxActions : BlogActionCreatePost(a)
    \/ \E a \in 1..MaxActions : BlogActionFinish(a)

SpecCreateBlog == Init /\ [][NextCreateBlog]_vars

\* The inputs that pass postSchema.
ValidFormValues == {values \in FormValues : PostSchemaSafeParse(values).success}

\* createBlogAction called with inputs that pass postSchema, next to renders
\* of PostsSection.
NextBlogCache ==
    \/ \E a \in 1..MaxActions, values \in ValidFormValues, token \in Tokens :
           BlogActionStart(a, values, token)
    \/ \E a \in 1..MaxActions : BlogActionGenerateUrl(a)
    \/ \E a \in 1..MaxActions, ok \in BOOLEAN, storageId \in StoredFiles :
           BlogActionUpload(a, ok, storageId)
    \/ \E a \in 1..MaxActions : BlogActionCreatePost(a)
    \/ \E a \in 1..MaxActions : BlogActionFinish(a)
    \/ \E r \in 1..MaxRenders : RenderStart(r)
    \/ \E r \in 1..MaxRenders : RenderFetch(r)
    \/ \E r \in 1..MaxRenders : RenderStore(r)

SpecBlogCache == Init /\ [][NextBlogCache]_vars

\* What postSchema asks of each field, stated on its own.
InvalidFields(values) ==
    {f \in {"title"} :
        values.title.len < TitleMinLen \/ values.title.len > TitleMaxLen}
    \cup {f \in {"content"} : values.content.len < ContentMinLen}
    \cup {f \in {"image"} : values.image.size > MaxImageBytes}

\* C14: createBlogAction makes no backend call (generateImageUploadUrl,
\* upload, createPost) unless its input passes postSchema and a token is
\* present; an invalid input returns the error "Invalid data" with details
\* for exactly the failing fields, whether or not there is a token; a valid
\* input without a token returns the error "Unauthorized".
C14_NoBackendCallBeforeChecks ==
    \A a \in 1..MaxActions :
        LET act == blogActions[a]
        IN act.pc # "idle" =>
            /\ Len(act.calls) > 0 =>
                   InvalidFields(act.values) = {} /\ act.token # Null
            /\ InvalidFields(act.values) # {} =>
                   /\ act.pc = "done"
                   /\ act.calls = <<>>
                   /\ DOMAIN act.result = {"error", "details"}
                   /\ act.result.error = "Invalid data"
                   /\ DOMAIN act.result.details = InvalidFields(act.values)
                   /\ \A f \in DOMAIN act.result.details :
                          act.result.details[f] # <<>>
            /\ InvalidFields(act.values) = {} /\ act.token = Null =>
                   /\ act.pc = "done"
                   /\ act.calls = <<>>
                   /\ act.result = [error |-> "Unauthorized"]

\* One call stopped on an invalid input that came without a token, and
\* another went on to the backend.
C14_Witness ==
    \E a, b \in 1..MaxActions :
        /\ blogActions[a].pc = "done"
        /\ InvalidFields(blogActions[a].values) # {}
        /\ blogActions[a].token = Null
        /\ Len(blogActions[b].calls) > 0

====
